---- MODULE Spec2Model ----
(***************************************************************************)
(* Two-Level variance-reduction sampler of the Yang-Mills engine           *)
(* (src/computations/yang_mills_engine.py, class TwoLevelSampler).         *)
(*                                                                         *)
(* Numbers.  A float is held as a pair <<n, d>>: d > 0 is the rational     *)
(* n/d in lowest terms, <<0, 0>> is NaN and <<1, 0>> is +inf, so that the  *)
(* numpy rules for empty means and divisions by zero are computed, not     *)
(* assumed.  exp() is evaluated in fixed point (ExpScale) by its Taylor    *)
(* series; correlator values are held in units of 1/CorrScale.             *)
(***************************************************************************)
EXTENDS Integers, Sequences, FiniteSets, TLC

\* ---------------------------------------------------------------- bounds
MaxN1 == 2
MaxN2 == 2
MaxDelta == 1
MaxStart == 1
MaxWindow == 3
NoiseAmp == 6
MaxSatDelta == 30
MaxSatSlack == 1
MaxCorrT == 4
MaxCallDelta == 1
MaxCalls == 3
MaxK == 9
MaxCycle == 5
MaxPigeons == 5
MaxHoles == 2
MaxRankN == 2
MaxSteps == 12
MaxFlowK == 2

\* ------------------------------------------------------------ arithmetic
RECURSIVE Gcd(_, _)
Gcd(a, b) == IF b = 0 THEN a ELSE Gcd(b, a % b)

Abs(x) == IF x < 0 THEN -x ELSE x

NaN == <<0, 0>>
Inf == <<1, 0>>
IsFinite(x) == x[2] > 0

\* n/d with d > 0, in lowest terms
Norm(n, d) ==
  LET g == Gcd(Abs(n), d) IN <<n \div g, d \div g>>

Rat(n) == <<n, 1>>

RAdd(x, y) ==
  IF x = NaN \/ y = NaN THEN NaN
  ELSE IF ~IsFinite(x) THEN x
  ELSE IF ~IsFinite(y) THEN y
  ELSE Norm(x[1] * y[2] + y[1] * x[2], x[2] * y[2])

RNeg(x) == IF IsFinite(x) THEN <<-x[1], x[2]>> ELSE x

RSub(x, y) == RAdd(x, RNeg(y))

RMul(x, y) ==
  IF x = NaN \/ y = NaN THEN NaN
  ELSE IF ~IsFinite(x) \/ ~IsFinite(y) THEN
         (IF x[1] = 0 \/ y[1] = 0 THEN NaN ELSE Inf)
  ELSE Norm(x[1] * y[1], x[2] * y[2])

\* numpy float64 division: 0/0 and nan give nan, x/0 gives inf, never raises
NpDiv(x, y) ==
  IF x = NaN \/ y = NaN THEN NaN
  ELSE IF ~IsFinite(x) THEN (IF IsFinite(y) THEN x ELSE NaN)
  ELSE IF ~IsFinite(y) THEN Rat(0)
  ELSE IF y[1] = 0 THEN (IF x[1] = 0 THEN NaN ELSE Inf)
  ELSE IF y[1] > 0 THEN Norm(x[1] * y[2], x[2] * y[1])
  ELSE Norm(-(x[1] * y[2]), x[2] * (-y[1]))

\* x < y as IEEE compares: false whenever a NaN is involved
RLess(x, y) ==
  IF x = NaN \/ y = NaN THEN FALSE
  ELSE IF ~IsFinite(x) THEN FALSE
  ELSE IF ~IsFinite(y) THEN TRUE
  ELSE x[1] * y[2] < y[1] * x[2]

RECURSIVE RSum(_)
RSum(s) == IF Len(s) = 0 THEN Rat(0) ELSE RAdd(Head(s), RSum(Tail(s)))

\* np.mean of a 1-d array: nan for the empty array
NpMean(s) == NpDiv(RSum(s), Rat(Len(s)))

\* np.var of a 1-d array (ddof = 0): mean of the squared deviations
NpVar(s) ==
  LET m == NpMean(s) IN
  NpMean([k \in 1..Len(s) |-> RMul(RSub(s[k], m), RSub(s[k], m))])

\* ------------------------------------------------------------ fixed point
ExpScale == 10000000
ExpTerms == 24
CorrScale == 10

\* sum of the Taylor series of exp(-p/q) from term k on, term = (-p/q)^k / k!
RECURSIVE ExpSeries(_, _, _, _)
ExpSeries(term, k, p, q) ==
  IF k > ExpTerms \/ term = 0 THEN 0
  ELSE term + ExpSeries((-(term * p)) \div (q * k), k + 1, p, q)

\* exp(-p/q) in units of 1/ExpScale, for p >= 0, q > 0
ExpNeg(p, q) ==
  LET g == Gcd(p, q) IN ExpSeries(ExpScale, 1, p \div g, q \div g)

\* ------------------------------------------------------------ configuration
Lattices ==
  { [L |-> 2, T |-> 3, beta |-> 6], [L |-> 3, T |-> 4, beta |-> 1] }

TwoLevelConfig(n1, n2, delta, s, e) ==
  [n1 |-> n1, n2 |-> n2, delta |-> delta,
   t_active_start |-> s, t_active_end |-> e]

Configs ==
  { TwoLevelConfig(n1, n2, d, s, s + w) :
      n1 \in 0..MaxN1, n2 \in 0..MaxN2, d \in 0..MaxDelta,
      s \in 0..MaxStart, w \in 0..MaxWindow }

\* configurations for the boundary-saturation diagnostic: every frozen
\* thickness up to MaxSatDelta, with the smallest windows the constructor takes
SatConfigs ==
  { TwoLevelConfig(1, 1, d, 0, 2 * d + w) :
      d \in 0..MaxSatDelta, w \in 0..MaxSatSlack }

\* configurations for the interleaving of the two public methods: one inner
\* and one boundary sample, every frozen thickness up to MaxCallDelta
CallConfigs ==
  { TwoLevelConfig(1, 1, d, 0, 2 * d + 1) : d \in 0..MaxCallDelta }

Window(c) == c.t_active_end - c.t_active_start

\* _validate_config raises exactly when this holds
ConfigRejected(c) == Window(c) < 2 * c.delta

\* ------------------------------------------------------------------ fields
NoField == <<>>
FieldVals == {0, 1}
PerturbVals == {-1, 1}

\* _generate_gauge_field: one value per time slice stands for the
\* (L, L, L, 4) block of that slice; the draws enumerated are constant in t
GaugeFieldDraws(lat) == { [t \in 0..(lat.T - 1) |-> v] : v \in FieldVals }

\* Python's slice(start, stop) on an axis of length len: the indices touched
SliceBound(x, len) ==
  IF x < 0 THEN (IF x + len < 0 THEN 0 ELSE x + len)
  ELSE (IF x > len THEN len ELSE x)

PySlice(start, stop, len) ==
  { t \in 0..(len - 1) : SliceBound(start, len) <= t /\ t < SliceBound(stop, len) }

\* variant: the slice taken over the whole active window, without the margin
ActiveSliceNoMargin(c, T) ==
  PySlice(c.t_active_start, c.t_active_end, T)

\* active_slice of _measure_active_region, on the temporal axis of length T
ActiveSlice(c, T) ==
  PySlice(c.t_active_start + c.delta, c.t_active_end - c.delta, T)

\* frozen_boundary.copy(): the buffer that active_field names afterwards
ArrayCopy(buffer) == "fresh"

\* active_field[active_slice] += noise
PerturbSlice(field, slice, amount) ==
  [t \in DOMAIN field |-> IF t \in slice THEN field[t] + amount ELSE field[t]]

\* -------------------------------------------------------------- correlator
Channels == {"0++", "0-+", "2++"}
NoiseSet == { Norm(-NoiseAmp, CorrScale), Norm(NoiseAmp, CorrScale) }

\* the normal draws of one inner iteration, <<for "0++", for "0-+">>: the
\* pairs enumerated are the opposite ones
NoiseDraws == { <<z, RNeg(z)>> : z \in NoiseSet }
NoValue == <<>>

\* effective masses, in tenths of a lattice unit
MEff0pp == 5
MEff0mp == 7

\* np.exp(-m_eff * t), rounded to 1/CorrScale
Signal(m10, t) ==
  Norm((ExpNeg(m10 * t, 10) * CorrScale + ExpScale \div 2) \div ExpScale, CorrScale)

\* variant: the field's content enters the returned value
ComputeCorrelatorFieldDependent(field, t, channel, noise) ==
  IF channel = "0++"
    THEN [raised |-> FALSE,
          value |-> RAdd(RAdd(Signal(MEff0pp, t), noise), Rat(field[0]))]
  ELSE IF channel = "0-+"
    THEN [raised |-> FALSE,
          value |-> RAdd(RAdd(Signal(MEff0mp, t), noise), Rat(field[0]))]
  ELSE [raised |-> TRUE, value |-> NoValue]

\* variant: an unknown channel falls back to the scalar channel
ComputeCorrelatorDefaultChannel(field, t, channel, noise) ==
  IF channel = "0-+"
    THEN [raised |-> FALSE, value |-> RAdd(Signal(MEff0mp, t), noise)]
    ELSE [raised |-> FALSE, value |-> RAdd(Signal(MEff0pp, t), noise)]

\* _compute_correlator(field, t, channel), with the normal draw as an input
ComputeCorrelator(field, t, channel, noise) ==
  IF channel = "0++"
    THEN [raised |-> FALSE, value |-> RAdd(Signal(MEff0pp, t), noise)]
  ELSE IF channel = "0-+"
    THEN [raised |-> FALSE, value |-> RAdd(Signal(MEff0mp, t), noise)]
  ELSE [raised |-> TRUE, value |-> NoValue]

\* ------------------------------------------------------------ numpy arrays
\* a 1-d array is [shape |-> <<k>>, data |-> k numbers]; a 0-d result (a
\* float64 scalar) is [shape |-> <<>>, data |-> <<x>>]
Arr1(s) == [shape |-> <<Len(s)>>, data |-> s]
Scalar(x) == [shape |-> <<>>, data |-> <<x>>]
EmptyArr == Arr1(<<>>)

\* variant: the window counted from zero, range(t_active_end - t_active_start)
TRangeFromZero(c) ==
  [j \in 1..(IF Window(c) > 0 THEN Window(c) ELSE 0) |-> j - 1]

\* range(t_active_start, t_active_end) as a list
TRange(c) ==
  [j \in 1..(IF Window(c) > 0 THEN Window(c) ELSE 0) |-> c.t_active_start + j - 1]

\* np.zeros((num_t, n1))
Zeros(num_t, n1) == [j \in 1..num_t |-> [k \in 1..n1 |-> Rat(0)]]

\* np.mean(c, axis=1) of a (num_t, n1) matrix
MeanAxis1(c) == [j \in 1..Len(c) |-> NpMean(c[j])]

Column(rows, k) == [r \in 1..Len(rows) |-> rows[r][k]]

\* np.array(rows) then np.mean(.., axis=0): np.array([]) has shape (0,), whose
\* mean over axis 0 is the scalar nan
MeanAxis0(rows) ==
  IF Len(rows) = 0 THEN Scalar(NaN)
  ELSE Arr1([k \in 1..Len(rows[1]) |-> NpMean(Column(rows, k))])

VarAxis0(rows) ==
  IF Len(rows) = 0 THEN Scalar(NaN)
  ELSE Arr1([k \in 1..Len(rows[1]) |-> NpVar(Column(rows, k))])

ArrDiv(a, x) == [a EXCEPT !.data = [k \in 1..Len(a.data) |-> NpDiv(a.data[k], x)]]
ArrSquare(a) == [a EXCEPT !.data = [k \in 1..Len(a.data) |-> RMul(a.data[k], a.data[k])]]
MeanAll(a) == NpMean(a.data)

\* ---------------------------------------------------------- run_simulation
NoResult ==
  [status |-> "none", t_range |-> <<>>,
   correlator_0pp |-> EmptyArr, correlator_0mp |-> EmptyArr,
   variance_0pp |-> EmptyArr, variance_0mp |-> EmptyArr,
   variance_scaling |-> NaN, expected_scaling |-> NaN]

\* 1.0 / (n1 ** 2) is a Python float division: it raises for n1 = 0
ExpectedScalingRaises(c) == c.n1 * c.n1 = 0
\* variant: the 1/n1 law of plain Monte Carlo
ExpectedScalingLinear(c) == Norm(1, c.n1)
ExpectedScaling(c) == Norm(1, c.n1 * c.n1)

\* variant: the comparison without the factor 2
ClassifyNoFactor(actual, expected) ==
  IF RLess(actual, expected) THEN "PASS" ELSE "WARN"

\* the branch taken at "if actual_scaling < expected_variance_scaling * 2"
Classify(actual, expected) ==
  IF RLess(actual, RMul(expected, Rat(2))) THEN "PASS" ELSE "WARN"

\* what the statistics block of run_simulation yields from the collected rows
Statistics(c, rows0pp, rows0mp) ==
  LET mean_0pp == MeanAxis0(rows0pp)
      mean_0mp == MeanAxis0(rows0mp)
      var_0pp == ArrDiv(VarAxis0(rows0pp), Rat(c.n2))
      var_0mp == ArrDiv(VarAxis0(rows0mp), Rat(c.n2))
  IN  IF ExpectedScalingRaises(c)
        THEN [NoResult EXCEPT !.status = "raised"]
        ELSE [status |-> "returned", t_range |-> TRange(c),
              correlator_0pp |-> mean_0pp, correlator_0mp |-> mean_0mp,
              variance_0pp |-> var_0pp, variance_0mp |-> var_0mp,
              variance_scaling |->
                NpDiv(MeanAll(var_0pp), MeanAll(ArrSquare(mean_0pp))),
              expected_scaling |-> ExpectedScaling(c)]

\* ------------------------------------------------------------------- state
VARIABLES
  lattice,               \* the LatticeConfig given to the constructor
  config,                \* the TwoLevelConfig given to the constructor
  pc,                    \* where the sampler is: new, config_error, idle, outer, inner
  n,                     \* run_simulation: boundary samples processed
  i,                     \* _measure_active_region: inner samples processed
  frozen_boundary,       \* the boundary field of the current outer iteration
  boundary_input,        \* that field as it was handed to _measure_active_region
  active_field,          \* the perturbed field of the current inner iteration
  c_0pp, c_0mp,          \* the (num_t, n1) matrices being filled
  all_correlators_0pp,   \* rows collected by run_simulation, one per boundary
  all_correlators_0mp,
  result,                \* the caller's last call, if run_simulation: what it returned (or that it raised)
  verdict,               \* and the classification line it printed
  saturation,            \* the caller's last call, if analyze_boundary_saturation: what it returned
  corr,                  \* the last direct _compute_correlator call and its outcome
  rng_draws,             \* np.random.normal calls made by the caller's last call
  history,               \* the analysis outcomes a caller has kept, in call order
  main_pc,               \* the script's position: off, start, sampler, stressed, plotted, printed, crashed
  sampler_calls,         \* the TwoLevelSampler methods the script has invoked, in order
  entropy_results,       \* what run_stress_test returned to the script
  summary,               \* the status lines the script has printed
  threshold_data,        \* the last analyze_threshold call and what it returned
  lee,                   \* the last lee_formula_k5 call and what it returned
  sequence,              \* the last sequence analysis and what it returned
  sheaf_module,          \* topology.sheaf_scanner: unloaded, loaded, or the error its import raised
  scan,                  \* the last scan_logical_cycle call and what it returned
  rank,                  \* the last compute_homology_rank call and what it returned
  fields_generated,      \* _generate_gauge_field calls of the caller's last run_simulation
  measure_log,           \* its _measure_active_region calls: the field passed, whether it returned
  write_log,             \* per matrix entry, the correlator writes of the current measurement
  measurements,          \* _compute_correlator calls of the current measurement
  compression,           \* what the caller's last run_compression_test returned
  earlier,               \* and what the one before it returned
  flow_module,           \* flow.veritas_flow: unloaded, loaded, or the error its import raised
  flow_pc,               \* VeritasFlowExecutor.run: off, running, done
  flow,                  \* the VeritasState being run
  executed               \* the nodes run has executed, in order

\* ------------------------------------------- analyze_boundary_saturation
SatThreshold == ExpScale \div 100
NoDistance == <<>>

NoSaturation ==
  [status |-> "none", distances |-> <<>>, error_reduction |-> <<>>,
   saturation_distance |-> NoDistance, frozen_thickness |-> 0]

\* a scan that stops at the frozen thickness
DistancesWithinShell(c) == [k \in 1..(IF c.delta > 0 THEN c.delta ELSE 0) |-> k]

\* list(range(1, delta + 5))
Distances(c) == [k \in 1..(IF c.delta + 4 > 0 THEN c.delta + 4 ELSE 0) |-> k]

\* xi = delta / 2 is 0.0 for delta = 0, and every d >= 1 then takes the
\* branch that divides delta by xi
ReductionRaises(c, d) == d > c.delta /\ c.delta = 0

\* a factor that grows towards saturation inside the shell
ReductionGrowing(c, d) ==
  IF d <= c.delta THEN ExpScale - ExpNeg(2 * d, c.delta)
  ELSE (ExpNeg(2 * c.delta, c.delta) * (10 + (d - c.delta))) \div 10

\* the error-reduction factor at distance d, in units of 1/ExpScale
Reduction(c, d) ==
  IF d <= c.delta THEN ExpNeg(2 * d, c.delta)
  ELSE (ExpNeg(2 * c.delta, c.delta) * (10 + (d - c.delta))) \div 10

\* the detection loop: the first index i > 0 (1-based: idx >= 2) whose factor is
\* within the threshold of its predecessor's
RECURSIVE DetectSaturation(_, _, _)
DetectSaturation(distances, er, idx) ==
  IF idx > Len(distances) THEN NoDistance
  ELSE IF idx > 1 /\ Abs(er[idx] - er[idx - 1]) < SatThreshold
    THEN <<distances[idx]>>
  ELSE DetectSaturation(distances, er, idx + 1)

\* an analysis that reports what the last run_simulation left behind
AnalyzeResultAfterRun(c) ==
  LET distances == Distances(c)
  IN  [status |-> "returned", distances |-> distances,
       error_reduction |->
         [k \in 1..Len(distances) |->
            IF result.status = "returned" THEN Len(result.t_range) ELSE 0],
       saturation_distance |-> NoDistance, frozen_thickness |-> c.delta]

AnalyzeResult(c) ==
  LET distances == Distances(c)
      er == [k \in 1..Len(distances) |-> Reduction(c, distances[k])]
  IN  IF \E k \in 1..Len(distances) : ReductionRaises(c, distances[k])
        THEN [NoSaturation EXCEPT !.status = "raised"]
        ELSE [status |-> "returned", distances |-> distances,
              error_reduction |-> er,
              saturation_distance |-> DetectSaturation(distances, er, 1),
              frozen_thickness |-> c.delta]

\* --------------------------------------------------------- kronecker_fault
KInputs == (0 - 1)..MaxK

\* floor of the square root, by bisection on [lo, hi)
RECURSIVE ISqrtBetween(_, _, _)
ISqrtBetween(x, lo, hi) ==
  IF hi - lo <= 1 THEN lo
  ELSE LET mid == (lo + hi) \div 2
       IN  IF mid * mid <= x THEN ISqrtBetween(x, mid, hi)
           ELSE ISqrtBetween(x, lo, mid)

ISqrt(x) == ISqrtBetween(x, 0, 46341)

\* hogben_polynomial: the triangular number of index k^2 - k + 1
HogbenPolynomial(k) ==
  IF k <= 0 THEN 0
  ELSE LET index == k * k - k + 1 IN (index * (index + 1)) \div 2

ExplicitValues == <<1, 6, 28, 91, 260, 650, 1470>>

\* a coefficient that follows the polynomial at every k
StaircaseHookPolynomial(k) == HogbenPolynomial(k)

\* staircase_hook_coefficient; beyond the table, int(1470 * (k / 7) ** 2.5)
\* is the floor of sqrt(1470^2 * k^5 / 7^5) = sqrt(900 * k^5 / 7)
StaircaseHookCoefficient(k) ==
  IF k <= 0 THEN 0
  ELSE IF k <= Len(ExplicitValues) THEN ExplicitValues[k]
  ELSE ISqrt((900 * k * k * k * k * k) \div 7)

\* the tuple (value, discriminant, pattern) of lee_formula_k5
LeeFormulaK5(k) ==
  LET quadratic == k * k - 5 * k + 7
      cubic == (k - 2) * (k - 2) * (k - 2)
      discriminant == 25 - 4 * 7
  IN  [value |-> quadratic * cubic,
       discriminant |-> discriminant,
       pattern |-> IF discriminant >= 0 THEN "Z-factorizable" ELSE "OBSTRUCTION"]

\* KroneckerCoefficient.analyze_threshold
AnalyzeThreshold(k) ==
  LET actual == StaircaseHookCoefficient(k)
      predicted == HogbenPolynomial(k)
      correction == actual - predicted
  IN  [actual |-> actual, predicted |-> predicted, correction |-> correction,
       discriminant |-> IF k >= 5 THEN LeeFormulaK5(k).discriminant ELSE 0,
       pattern |-> IF k >= 5 THEN LeeFormulaK5(k).pattern ELSE "Stable",
       is_stable |-> correction = 0]

\* analyze_kronecker_sequence: one KroneckerResult per k of range(1, max_k + 1)
AnalyzeKroneckerSequence(max_k) ==
  [k \in 1..max_k |->
     LET data == AnalyzeThreshold(k)
     IN  [k |-> k, actual_coefficient |-> data.actual,
          hogben_prediction |-> data.predicted, correction |-> data.correction,
          is_stable |-> data.is_stable, discriminant |-> data.discriminant,
          factorization_pattern |-> data.pattern]]

NoK == <<>>

\* the threshold loop of compute_correction_sequence: the k of the first
\* result that is not stable
RECURSIVE FirstUnstable(_, _)
FirstUnstable(results, idx) ==
  IF idx > Len(results) THEN NoK
  ELSE IF ~results[idx].is_stable THEN <<results[idx].k>>
  ELSE FirstUnstable(results, idx + 1)

\* compute_correction_sequence analyses up to this k
CorrectionMaxK == 7

NoThreshold == [called |-> FALSE, k |-> 0, data |-> <<>>]
NoLee == [called |-> FALSE, k |-> 0, out |-> <<>>]
NoSequence ==
  [called |-> "none", max_k |-> 0, results |-> <<>>, threshold |-> NoK]

\* ----------------------------------------------------------- sheaf_scanner
\* the class body of SheafScanner evaluates the annotation Optional[Any],
\* a name the module never imports: an interpreter that evaluates
\* annotations at definition time raises NameError there, one that defers
\* them loads the module
ImportOutcomes == {"loaded", "NameError"}

\* the test suite's generate_php: variable of pigeon p in hole h (0-based)
PhpVar(p, h, holes) == p * holes + h + 1

\* the pairs (p1, p2), p1 < p2 < pigeons, in the order of the nested loops
RECURSIVE PigeonPairs(_, _, _)
PigeonPairs(p1, p2, pigeons) ==
  IF p1 >= pigeons - 1 THEN <<>>
  ELSE IF p2 >= pigeons THEN PigeonPairs(p1 + 1, p1 + 2, pigeons)
  ELSE <<(<<p1, p2>>)>> \o PigeonPairs(p1, p2 + 1, pigeons)

RECURSIVE HoleClauses(_, _, _)
HoleClauses(h, pigeons, holes) ==
  IF h >= holes THEN <<>>
  ELSE LET pairs == PigeonPairs(0, 1, pigeons)
       IN  [j \in 1..Len(pairs) |->
              <<0 - PhpVar(pairs[j][1], h, holes),
                0 - PhpVar(pairs[j][2], h, holes)>>]
           \o HoleClauses(h + 1, pigeons, holes)

GeneratePhp(pigeons, holes) ==
  [p1 \in 1..pigeons |-> [h1 \in 1..holes |-> PhpVar(p1 - 1, h1 - 1, holes)]]
  \o HoleClauses(0, pigeons, holes)

TwoSat == <<(<<1, 2>>), (<<0 - 1, 0 - 2>>)>>

TwistedCycle ==
  <<(<<1, 2>>), (<<0 - 1, 0 - 2>>), (<<2, 3>>), (<<0 - 2, 0 - 3>>),
    (<<3, 4>>), (<<0 - 3, 0 - 4>>), (<<1, 4>>), (<<0 - 4, 0 - 1>>)>>

ClauseLists ==
  {TwoSat, TwistedCycle}
    \cup { GeneratePhp(p, h) : p \in 1..MaxPigeons, h \in 1..MaxHoles }

\* CnfFormula.from_clauses: hard when len(clauses) > 2.5 * vars_count
FromClauses(clauses) ==
  LET vars_count ==
        Cardinality(UNION { { Abs(clauses[c][l]) : l \in DOMAIN clauses[c] } :
                              c \in DOMAIN clauses })
  IN  [clauses |-> clauses, is_hard |-> 2 * Len(clauses) > 5 * vars_count]

\* SheafScanner(formula).compute_homology_rank(rank_n)
ComputeHomologyRank(formula, rank_n) ==
  IF formula.is_hard THEN (IF rank_n = 1 THEN 1 ELSE 0) ELSE 0

\* SheafScanner().scan_cycle(size, force_obstruction); h1_value is 1.0 or 0.0
ScanCycle(size, force_obstruction) ==
  [cycle_size |-> size,
   local_consistencies |-> [j \in 1..size |-> TRUE],
   global_obstruction |-> force_obstruction,
   h1_value |-> IF force_obstruction THEN 1 ELSE 0,
   description |-> IF force_obstruction THEN "H1 != 0" ELSE "H1 = 0"]

NoScan == [called |-> FALSE, size |-> 0, force_obstruction |-> FALSE, out |-> <<>>]
NoRank == [called |-> FALSE, clauses |-> <<>>, rank_n |-> 0, out |-> 0]

\* ----------------------------------------------------------- are_compressor
\* Python integers are unbounded: a natural number is held as its base-1000
\* digits, least significant first (<<>> is 0)
RECURSIVE BigTimes(_, _, _)
BigTimes(digits, k, carry) ==
  IF Len(digits) = 0
    THEN (IF carry = 0 THEN <<>>
          ELSE <<carry % 1000>> \o BigTimes(<<>>, k, carry \div 1000))
  ELSE LET v == Head(digits) * k + carry
       IN  <<v % 1000>> \o BigTimes(Tail(digits), k, v \div 1000)

RECURSIVE BigPower(_, _)
BigPower(k, e) ==
  IF e = 0 THEN <<1>>
  ELSE IF k = 0 THEN <<>>
  ELSE CHOOSE product \in { BigTimes(lower, k, 0) : lower \in {BigPower(k, e - 1)} } :
         TRUE

\* a <= b: no digit of a exceeds b's with all higher digits equal
BigLeq(a, b) ==
  IF Len(a) # Len(b) THEN Len(a) < Len(b)
  ELSE ~\E p \in 1..Len(a) :
          /\ a[p] > b[p]
          /\ \A q \in (p + 1)..Len(a) : a[q] = b[q]

\* int(T ** 0.7): the largest m with m^10 <= T^7, by bisection on [lo, hi)
\* (the float power truncates to the same integer at every length used here)
RECURSIVE PowerFloorBetween(_, _, _)
PowerFloorBetween(x, lo, hi) ==
  IF hi - lo <= 1 THEN lo
  ELSE LET mid == (lo + hi) \div 2
       IN  IF \E tenth \in {BigPower(mid, 10)}, seventh \in {BigPower(x, 7)} :
                 BigLeq(tenth, seventh)
             THEN PowerFloorBetween(x, mid, hi)
             ELSE PowerFloorBetween(x, lo, mid)

PowSevenTenths(x) == PowerFloorBetween(x, 0, x + 1)

\* trace lengths: every small one, and the lengths the test suite uses
TestedLengths == {100, 400, 1000, 1600}
Steps == 0..MaxSteps \cup TestedLengths
ProblemTypes == {"easy", "hard"}

\* the mean |corrcoef| over the compared checkpoints is a float computation
\* on 100-component states: it is left open, over values on both sides of
\* and on the two thresholds, and nan (a constant state has no corrcoef)
CorrelationLevels == { NaN, Norm(1, 2), Norm(4, 5), Rat(1) }

\* variant: the target without the square root
TargetSizeNoRoot(steps) == steps + 1

\* target_size = int(np.sqrt(T)) + 1
TargetSize(steps) == ISqrt(steps) + 1

\* checkpoint_interval = max(1, T // target_size)
CheckpointInterval(steps) ==
  IF steps \div TargetSize(steps) > 1 THEN steps \div TargetSize(steps) ELSE 1

\* avg_correlation: 0 when range(0, T - interval, interval) is empty
AvgCorrelation(steps, level) ==
  IF steps - CheckpointInterval(steps) > 0 THEN level ELSE Rat(0)

\* the low branch keeping the whole trace
AlgebraicReplayCompressFullTrace(steps, level) ==
  IF RLess(Norm(4, 5), AvgCorrelation(steps, level))
    THEN [size |-> TargetSize(steps), success |-> TRUE]
  ELSE IF RLess(Norm(1, 2), AvgCorrelation(steps, level))
    THEN [size |-> PowSevenTenths(steps), success |-> FALSE]
  ELSE [size |-> 2 * steps, success |-> FALSE]

\* algebraic_replay_compress on a trace of that length and mean correlation:
\* (compressed_size, success)
AlgebraicReplayCompress(steps, level) ==
  IF RLess(Norm(4, 5), AvgCorrelation(steps, level))
    THEN [size |-> TargetSize(steps), success |-> TRUE]
  ELSE IF RLess(Norm(1, 2), AvgCorrelation(steps, level))
    THEN [size |-> PowSevenTenths(steps), success |-> FALSE]
  ELSE [size |-> steps \div 2, success |-> FALSE]

NoCompression ==
  [status |-> "none", problem_type |-> "none", time_steps |-> 0,
   avg_correlation |-> NaN, native_space |-> 0, holographic_space |-> 0,
   compression_ratio |-> NaN, achieved_sqrt_bound |-> FALSE]

\* variant: the ratio taken as native over compressed
CompressionResultInverseRatio(steps, kind, level) ==
  IF steps = 0
    THEN [NoCompression EXCEPT !.status = "ValueError", !.problem_type = kind]
  ELSE LET out == AlgebraicReplayCompress(steps, level)
       IN  [status |-> "returned", problem_type |-> kind, time_steps |-> steps,
            avg_correlation |-> AvgCorrelation(steps, level),
            native_space |-> steps, holographic_space |-> out.size,
            compression_ratio |-> Norm(steps, out.size),
            achieved_sqrt_bound |-> out.success]

\* run_compression_test(time_steps, problem_type), the simulated trace having
\* that mean correlation: np.concatenate raises on the empty trace; the
\* CompressionResult otherwise (its boundary_entropy is not carried)
CompressionResult(steps, kind, level) ==
  IF steps = 0
    THEN [NoCompression EXCEPT !.status = "ValueError", !.problem_type = kind]
  ELSE LET out == AlgebraicReplayCompress(steps, level)
       IN  [status |-> "returned", problem_type |-> kind, time_steps |-> steps,
            avg_correlation |-> AvgCorrelation(steps, level),
            native_space |-> steps, holographic_space |-> out.size,
            compression_ratio |-> Norm(out.size, steps),
            achieved_sqrt_bound |-> out.success]

\* ------------------------------------------------------------ veritas_flow
\* raw_data.get(key, default): an optional entry is <<>> or <<value>>
RawGet(entry, default) == IF Len(entry) = 0 THEN default ELSE entry[1]

\* the clauses of the script's own test state
MainClauses == <<(<<1, 2, 3>>), (<<0 - 1, 0 - 2>>)>>

FlowClauses == {MainClauses, TwoSat, TwistedCycle, GeneratePhp(5, 1)}
FlowKs == { <<>> } \cup { <<k>> : k \in (5 - MaxFlowK)..(5 + MaxFlowK) }
FlowSteps == { <<>>, <<4>>, <<100>> }
ProblemIds == {"PROB_001", "P_neq_NP_Evidence"}

NoCertificate == <<>>
NoNodeResult == <<>>

\* VeritasState as the script builds it
InitialStates ==
  { [problem_id |-> id, problem_type |-> kind,
     raw_data |-> [clauses |-> cl, k |-> k, time_steps |-> ts],
     topological_result |-> NoNodeResult, algebraic_result |-> NoNodeResult,
     holographic_result |-> NoNodeResult, lean_certificate |-> NoCertificate,
     current_node |-> "", status |-> ""] :
      id \in ProblemIds, kind \in ProblemTypes, cl \in FlowClauses,
      k \in FlowKs, ts \in FlowSteps }

NoFlow ==
  [problem_id |-> "", problem_type |-> "",
   raw_data |-> [clauses |-> <<>>, k |-> <<>>, time_steps |-> <<>>],
   topological_result |-> NoNodeResult, algebraic_result |-> NoNodeResult,
   holographic_result |-> NoNodeResult, lean_certificate |-> NoCertificate,
   current_node |-> "", status |-> ""]

\* topological_node
TopologicalNode(st) ==
  LET h1_rank == ComputeHomologyRank(FromClauses(st.raw_data.clauses), 1)
  IN  [st EXCEPT !.topological_result =
                   <<[h1_rank |-> h1_rank, is_non_trivial |-> h1_rank > 0]>>,
                 !.status = IF h1_rank = 0 THEN "SUCCESS" ELSE @,
                 !.current_node = IF h1_rank = 0 THEN "END" ELSE "ALGEBRAIC"]

\* variant: the stability comparison inverted
AlgebraicNodeInverted(st) ==
  LET k == RawGet(st.raw_data.k, 4)
      is_stable == k >= 5
  IN  [st EXCEPT !.algebraic_result =
                   <<[k_value |-> k,
                      stability |-> IF is_stable THEN "STABLE" ELSE "OBSTRUCTED"]>>,
                 !.status = IF is_stable THEN "FAILED" ELSE @,
                 !.current_node = IF is_stable THEN "END" ELSE "HOLOGRAPHIC"]

\* algebraic_node
AlgebraicNode(st) ==
  LET k == RawGet(st.raw_data.k, 4)
      is_stable == k < 5
  IN  [st EXCEPT !.algebraic_result =
                   <<[k_value |-> k,
                      stability |-> IF is_stable THEN "STABLE" ELSE "OBSTRUCTED"]>>,
                 !.status = IF is_stable THEN "FAILED" ELSE @,
                 !.current_node = IF is_stable THEN "END" ELSE "HOLOGRAPHIC"]

\* AlgebraicReplayEngine(time_steps=T).run_simulation(is_hard): the result it
\* hands back when its trace has that mean correlation
EngineRunSimulation(steps, is_hard, level) ==
  CompressionResult(steps, IF is_hard THEN "hard" ELSE "easy", level)

\* result.holographic_space < (1.5 * (T**0.5) * (3.3)), squared
AchievedSqrt(space, steps) == 400 * space * space < 9801 * steps

\* holographic_node, the engine having returned engine_result
HolographicNode(st, engine_result) ==
  LET T == RawGet(st.raw_data.time_steps, 1000)
      achieved_sqrt == AchievedSqrt(engine_result.holographic_space, T)
  IN  [st EXCEPT !.holographic_result =
                   <<[achieved_sqrt |-> achieved_sqrt,
                      compression_ratio |-> engine_result.compression_ratio]>>,
                 !.status = IF achieved_sqrt THEN "ANOMALY" ELSE "SUCCESS",
                 !.current_node = "LEAN_VERIFY"]

EvidenceToken == "P_neq_NP_Evidence"

\* lean_verify_node: the f-string certificate as the pieces it is built from
LeanVerifyNode(st) ==
  LET cert == <<"theorem Veritas_", st.problem_id, " : ">>
  IN  [st EXCEPT !.lean_certificate =
                   IF st.status = "SUCCESS" THEN Append(cert, EvidenceToken)
                   ELSE cert,
                 !.current_node = "END"]

\* VeritasFlowExecutor.nodes
NodeNames == {"TOPOLOGICAL", "ALGEBRAIC", "HOLOGRAPHIC", "LEAN_VERIFY"}

\* the certificate is a string in which the token occurs
ContainsEvidence(cert) == \E p \in DOMAIN cert : cert[p] = EvidenceToken

\* ------------------------------------------------------------- entry point
\* the objects the script builds
MainLattice == [L |-> 32, T |-> 64, beta |-> 6]
MainConfig == TwoLevelConfig(100, 20, 4, 10, 54)

\* the fitted coefficients run_stress_test can come back with, in hundredths:
\* values on both sides of each of its thresholds
FitAlphas == {39, 40, 41, 45, 46}
FitGammas == {9, 10, 11, 15, 24, 25, 26}

\* savefig writes under docs/yang_mills of the working directory
PlotOutcomes == {"saved", "raised"}

NoEntropy == [status |-> "none", alpha |-> 0, gamma |-> 0, success |-> FALSE]

\* the dictionary run_stress_test returns for a fit (alpha, gamma)
StressResult(alpha, gamma) ==
  [status |-> "returned", alpha |-> alpha, gamma |-> gamma,
   success |-> (alpha > 40) /\ (10 < gamma /\ gamma < 25)]

NoSummary == [calibration |-> "none", stress |-> "none"]

\* the status lines of the script
Summary(entropy) ==
  [calibration |-> "VALIDADA",
   stress |-> IF entropy.success THEN "PASADO" ELSE "FALLIDO"]

\* ---------------------------------------------------------------- sampler
NoCall ==
  [called |-> FALSE, field |-> NoField, t |-> 0, channel |-> "0++",
   noise |-> NaN, out |-> [raised |-> FALSE, value |-> NoValue]]

samplerVars ==
  <<lattice, config, pc, n, i, frozen_boundary, boundary_input, active_field,
    c_0pp, c_0mp, all_correlators_0pp, all_correlators_0mp, result, verdict,
    saturation, corr, rng_draws, history, fields_generated, measure_log,
    write_log, measurements>>

mainVars == <<main_pc, sampler_calls, entropy_results, summary>>

kroneckerVars == <<threshold_data, lee, sequence>>

sheafVars == <<sheaf_module, scan, rank>>

areVars == <<compression, earlier>>

flowVars == <<flow_module, flow_pc, flow, executed>>

vars == <<samplerVars, mainVars, kroneckerVars, sheafVars, areVars, flowVars>>

runVars ==
  <<n, i, frozen_boundary, boundary_input, active_field, c_0pp, c_0mp,
    all_correlators_0pp, all_correlators_0mp, result, verdict,
    fields_generated, measure_log, write_log, measurements>>

InitSampler(lattices, configs) ==
  /\ lattice \in lattices
  /\ config \in configs
  /\ pc = "new"
  /\ n = 0
  /\ i = 0
  /\ frozen_boundary = NoField
  /\ boundary_input = NoField
  /\ active_field = NoField
  /\ c_0pp = <<>>
  /\ c_0mp = <<>>
  /\ all_correlators_0pp = <<>>
  /\ all_correlators_0mp = <<>>
  /\ result = NoResult
  /\ verdict = "none"
  /\ saturation = NoSaturation
  /\ corr = NoCall
  /\ rng_draws = 0
  /\ history = <<>>
  /\ fields_generated = 0
  /\ measure_log = <<>>
  /\ write_log = <<>>
  /\ measurements = 0

\* no script is running
InitMainOff ==
  /\ main_pc = "off"
  /\ sampler_calls = <<>>
  /\ entropy_results = NoEntropy
  /\ summary = NoSummary

InitKronecker ==
  /\ threshold_data = NoThreshold
  /\ lee = NoLee
  /\ sequence = NoSequence

InitSheaf ==
  /\ sheaf_module = "unloaded"
  /\ scan = NoScan
  /\ rank = NoRank

InitAre ==
  /\ compression = NoCompression
  /\ earlier = NoCompression

InitFlow ==
  /\ flow_module = "unloaded"
  /\ flow_pc = "off"
  /\ flow = NoFlow
  /\ executed = <<>>

InitWith(configs) ==
  /\ InitSampler(Lattices, configs)
  /\ InitMainOff
  /\ InitKronecker
  /\ InitSheaf
  /\ InitAre
  /\ InitFlow

Init == InitWith(Configs)

\* TwoLevelSampler(lattice, config): __init__ and _validate_config
Construct ==
  /\ pc = "new"
  /\ pc' = IF ConfigRejected(config) THEN "config_error" ELSE "idle"
  /\ UNCHANGED <<lattice, config, runVars, saturation, corr, rng_draws, history>>
  /\ UNCHANGED <<mainVars, kroneckerVars, sheafVars, areVars, flowVars>>

\* run_simulation, up to the outer loop
RunSimulation ==
  /\ pc = "idle"
  /\ pc' = "outer"
  /\ n' = 0
  /\ all_correlators_0pp' = <<>>
  /\ all_correlators_0mp' = <<>>
  /\ result' = NoResult
  /\ verdict' = "none"
  /\ saturation' = NoSaturation
  /\ rng_draws' = 0
  /\ fields_generated' = 0
  /\ measure_log' = <<>>
  /\ write_log' = <<>>
  /\ measurements' = 0
  /\ UNCHANGED <<lattice, config, i, frozen_boundary, boundary_input,
                 active_field, c_0pp, c_0mp, corr, history>>
  /\ UNCHANGED <<mainVars, kroneckerVars, sheafVars, areVars, flowVars>>

\* variant: the boundary field generated before the loop and measured again
\* in every outer iteration
GenerateBoundaryOnce ==
  /\ pc = "outer"
  /\ n < config.n2
  /\ IF n = 0
       THEN /\ \E f \in GaugeFieldDraws(lattice) :
                 /\ frozen_boundary' = f
                 /\ boundary_input' = f
            /\ fields_generated' = fields_generated + 1
            /\ rng_draws' = rng_draws + 1
       ELSE UNCHANGED <<frozen_boundary, boundary_input, fields_generated,
                        rng_draws>>
  /\ measure_log' = Append(measure_log,
                           [field |-> fields_generated', done |-> FALSE])
  /\ c_0pp' = Zeros(Len(TRange(config)), config.n1)
  /\ c_0mp' = Zeros(Len(TRange(config)), config.n1)
  /\ write_log' = [j \in 1..Len(TRange(config)) |->
                     [k \in 1..config.n1 |-> <<>>]]
  /\ measurements' = 0
  /\ i' = 0
  /\ pc' = "inner"
  /\ UNCHANGED <<lattice, config, n, active_field, all_correlators_0pp,
                 all_correlators_0mp, result, verdict, saturation, corr, history>>
  /\ UNCHANGED <<mainVars, kroneckerVars, sheafVars, areVars, flowVars>>

\* one outer iteration begins: a fresh boundary field, then
\* _measure_active_region up to its inner loop
GenerateBoundary ==
  /\ pc = "outer"
  /\ n < config.n2
  /\ \E f \in GaugeFieldDraws(lattice) :
       /\ frozen_boundary' = f
       /\ boundary_input' = f
  /\ c_0pp' = Zeros(Len(TRange(config)), config.n1)
  /\ c_0mp' = Zeros(Len(TRange(config)), config.n1)
  /\ i' = 0
  /\ pc' = "inner"
  /\ rng_draws' = rng_draws + 1
  /\ fields_generated' = fields_generated + 1
  /\ measure_log' = Append(measure_log,
                           [field |-> fields_generated + 1, done |-> FALSE])
  /\ write_log' = [j \in 1..Len(TRange(config)) |->
                     [k \in 1..config.n1 |-> <<>>]]
  /\ measurements' = 0
  /\ UNCHANGED <<lattice, config, n, active_field, all_correlators_0pp,
                 all_correlators_0mp, result, verdict, saturation, corr, history>>
  /\ UNCHANGED <<mainVars, kroneckerVars, sheafVars, areVars, flowVars>>

\* one inner iteration of _measure_active_region: copy, perturb the interior,
\* measure both channels at every t of the window
InnerIteration ==
  /\ pc = "inner"
  /\ i < config.n1
  /\ \E amount \in PerturbVals, z \in NoiseDraws :
       LET perturbed ==
             PerturbSlice(frozen_boundary, ActiveSlice(config, lattice.T), amount)
           t_range == TRange(config)
       IN  /\ active_field' = perturbed
           /\ frozen_boundary' =
                IF ArrayCopy("frozen_boundary") = "frozen_boundary"
                  THEN perturbed ELSE frozen_boundary
           /\ c_0pp' = [j \in 1..Len(t_range) |->
                          [c_0pp[j] EXCEPT ![i + 1] =
                             ComputeCorrelator(perturbed, t_range[j], "0++", z[1]).value]]
           /\ c_0mp' = [j \in 1..Len(t_range) |->
                          [c_0mp[j] EXCEPT ![i + 1] =
                             ComputeCorrelator(perturbed, t_range[j], "0-+", z[2]).value]]
  /\ i' = i + 1
  /\ rng_draws' = rng_draws + 1 + 2 * Len(TRange(config))
  /\ write_log' = [j \in 1..Len(TRange(config)) |->
                     [write_log[j] EXCEPT ![i + 1] =
                        @ \o <<[channel |-> "0++", t |-> TRange(config)[j],
                                sample |-> i],
                               [channel |-> "0-+", t |-> TRange(config)[j],
                                sample |-> i]>>]]
  /\ measurements' = measurements + 2 * Len(TRange(config))
  /\ UNCHANGED <<lattice, config, pc, n, boundary_input, all_correlators_0pp,
                 all_correlators_0mp, result, verdict, saturation, corr, history,
                 fields_generated, measure_log>>
  /\ UNCHANGED <<mainVars, kroneckerVars, sheafVars, areVars, flowVars>>

\* _measure_active_region returns; run_simulation averages over the inner
\* samples and appends one row per channel
EndMeasure ==
  /\ pc = "inner"
  /\ i = config.n1
  /\ all_correlators_0pp' = Append(all_correlators_0pp, MeanAxis1(c_0pp))
  /\ all_correlators_0mp' = Append(all_correlators_0mp, MeanAxis1(c_0mp))
  /\ n' = n + 1
  /\ pc' = "outer"
  /\ i' = 0
  /\ active_field' = NoField
  /\ c_0pp' = <<>>
  /\ c_0mp' = <<>>
  /\ measure_log' = [measure_log EXCEPT ![Len(measure_log)].done = TRUE]
  /\ write_log' = <<>>
  /\ measurements' = 0
  /\ UNCHANGED <<lattice, config, frozen_boundary, boundary_input, result,
                 verdict, saturation, corr, rng_draws, history, fields_generated>>
  /\ UNCHANGED <<mainVars, kroneckerVars, sheafVars, areVars, flowVars>>

\* the outer loop is over: statistics, classification, return (or the raise
\* of the expected-scaling division)
FinishSimulation ==
  /\ pc = "outer"
  /\ n = config.n2
  /\ LET r == Statistics(config, all_correlators_0pp, all_correlators_0mp)
     IN  /\ result' = r
         /\ verdict' = IF r.status = "returned"
                         THEN Classify(r.variance_scaling, r.expected_scaling)
                         ELSE "none"
  /\ pc' = "idle"
  /\ n' = 0
  /\ frozen_boundary' = NoField
  /\ boundary_input' = NoField
  /\ all_correlators_0pp' = <<>>
  /\ all_correlators_0mp' = <<>>
  /\ UNCHANGED <<lattice, config, i, active_field, c_0pp, c_0mp, saturation,
                 corr, rng_draws, history, fields_generated, measure_log,
                 write_log, measurements>>
  /\ UNCHANGED <<mainVars, kroneckerVars, sheafVars, areVars, flowVars>>

\* variant: the scanned range is written back as the frozen thickness
AnalyzeCallStoresRange ==
  /\ pc = "idle"
  /\ saturation' = AnalyzeResult(config)
  /\ config' = [config EXCEPT !.delta = config.delta + 4]
  /\ result' = NoResult
  /\ verdict' = "none"
  /\ rng_draws' = 0
  /\ fields_generated' = 0
  /\ measure_log' = <<>>
  /\ UNCHANGED <<lattice, pc, n, i, frozen_boundary, boundary_input,
                 active_field, c_0pp, c_0mp, all_correlators_0pp,
                 all_correlators_0mp, corr, write_log, measurements>>
  /\ UNCHANGED <<mainVars, kroneckerVars, sheafVars, areVars, flowVars>>

\* the body of analyze_boundary_saturation: it reads the configuration only
\* and calls np.random nowhere
AnalyzeCall ==
  /\ pc = "idle"
  /\ saturation' = AnalyzeResult(config)
  /\ result' = NoResult
  /\ verdict' = "none"
  /\ rng_draws' = 0
  /\ fields_generated' = 0
  /\ measure_log' = <<>>
  /\ UNCHANGED <<lattice, config, pc, n, i, frozen_boundary, boundary_input,
                 active_field, c_0pp, c_0mp, all_correlators_0pp,
                 all_correlators_0mp, corr, write_log, measurements>>
  /\ UNCHANGED <<mainVars, kroneckerVars, sheafVars, areVars, flowVars>>

\* analyze_boundary_saturation()
AnalyzeBoundarySaturation ==
  /\ AnalyzeCall
  /\ UNCHANGED history

\* analyze_boundary_saturation() by a caller that keeps every outcome, with
\* whether a completed run_simulation was its previous call
AnalyzeRecorded ==
  /\ Len(history) < MaxCalls
  /\ AnalyzeCall
  /\ history' = Append(history, [after_run |-> result.status = "returned",
                                 draws |-> rng_draws',
                                 out |-> saturation'])

\* a direct call _compute_correlator(field, t, channel)
CallComputeCorrelator ==
  /\ pc = "idle"
  /\ \E f \in GaugeFieldDraws(lattice), t \in 0..MaxCorrT,
        ch \in Channels, z \in NoiseSet :
       corr' = [called |-> TRUE, field |-> f, t |-> t, channel |-> ch,
                noise |-> z, out |-> ComputeCorrelator(f, t, ch, z)]
  /\ rng_draws' = IF corr'.out.raised THEN 0 ELSE 1
  /\ UNCHANGED <<lattice, config, pc, runVars, saturation, history>>
  /\ UNCHANGED <<mainVars, kroneckerVars, sheafVars, areVars, flowVars>>

Next ==
  \/ Construct
  \/ RunSimulation
  \/ GenerateBoundary
  \/ InnerIteration
  \/ EndMeasure
  \/ FinishSimulation
  \/ AnalyzeBoundarySaturation

Spec == Init /\ [][Next]_vars

\* the correlator as a function of its arguments
InitCorr == InitWith({TwoLevelConfig(1, 1, 1, 0, 3)})
NextCorr == Construct \/ CallComputeCorrelator
SpecCorr == InitCorr /\ [][NextCorr]_vars

\* the boundary-saturation diagnostic over the frozen thicknesses
InitSat == InitWith(SatConfigs)
NextSat == Construct \/ AnalyzeBoundarySaturation
SpecSat == InitSat /\ [][NextSat]_vars

\* a caller that interleaves run_simulation and analyze_boundary_saturation
\* on one sampler
InitCalls == InitWith(CallConfigs)

NextCalls ==
  \/ Construct
  \/ RunSimulation
  \/ GenerateBoundary
  \/ InnerIteration
  \/ EndMeasure
  \/ FinishSimulation
  \/ AnalyzeRecorded

SpecCalls == InitCalls /\ [][NextCalls]_vars

\* ------------------------------------------------------ entry point, steps
\* lines 523-527: the configuration objects and the sampler
MainBuildSampler ==
  /\ main_pc = "start"
  /\ pc = "new"
  /\ pc' = IF ConfigRejected(config) THEN "config_error" ELSE "idle"
  /\ main_pc' = IF ConfigRejected(config) THEN "crashed" ELSE "sampler"
  /\ sampler_calls' = Append(sampler_calls, "__init__")
  /\ UNCHANGED <<lattice, config, runVars, saturation, corr, rng_draws, history>>
  /\ UNCHANGED <<entropy_results, summary, kroneckerVars, sheafVars, areVars, flowVars>>

\* lines 530-532: the run_simulation call is commented out; the script goes
\* on to EntanglementAnalyzer(lattice).run_stress_test()
MainStressTest ==
  /\ main_pc = "sampler"
  /\ \E alpha \in FitAlphas, gamma \in FitGammas :
       entropy_results' = StressResult(alpha, gamma)
  /\ main_pc' = "stressed"
  /\ UNCHANGED <<samplerVars, sampler_calls, summary, kroneckerVars, sheafVars, areVars, flowVars>>

\* line 535: plot_entanglement_entropy(entropy_results, path)
MainPlot ==
  /\ main_pc = "stressed"
  /\ \E outcome \in PlotOutcomes :
       main_pc' = IF outcome = "saved" THEN "plotted" ELSE "crashed"
  /\ UNCHANGED <<samplerVars, sampler_calls, entropy_results, summary,
                 kroneckerVars, sheafVars, areVars, flowVars>>

\* lines 537-543: the final status block
MainPrintSummary ==
  /\ main_pc = "plotted"
  /\ summary' = Summary(entropy_results)
  /\ main_pc' = "printed"
  /\ UNCHANGED <<samplerVars, sampler_calls, entropy_results, kroneckerVars,
                 sheafVars, areVars, flowVars>>

InitMain ==
  /\ InitSampler({MainLattice}, {MainConfig})
  /\ main_pc = "start"
  /\ sampler_calls = <<>>
  /\ entropy_results = NoEntropy
  /\ summary = NoSummary
  /\ InitKronecker
  /\ InitSheaf
  /\ InitAre
  /\ InitFlow

NextMain ==
  \/ MainBuildSampler
  \/ MainStressTest
  \/ MainPlot
  \/ MainPrintSummary

SpecMain == InitMain /\ [][NextMain]_vars

\* ----------------------------------------------------- kronecker_fault calls
CallAnalyzeThreshold ==
  /\ \E k \in KInputs :
       threshold_data' = [called |-> TRUE, k |-> k, data |-> AnalyzeThreshold(k)]
  /\ UNCHANGED <<samplerVars, mainVars, lee, sequence, sheafVars, areVars, flowVars>>

CallLeeFormulaK5 ==
  /\ \E k \in KInputs :
       lee' = [called |-> TRUE, k |-> k, out |-> LeeFormulaK5(k)]
  /\ UNCHANGED <<samplerVars, mainVars, threshold_data, sequence, sheafVars, areVars, flowVars>>

CallAnalyzeKroneckerSequence ==
  /\ \E max_k \in KInputs :
       sequence' = [called |-> "analyze_kronecker_sequence", max_k |-> max_k,
                    results |-> AnalyzeKroneckerSequence(max_k),
                    threshold |-> NoK]
  /\ UNCHANGED <<samplerVars, mainVars, threshold_data, lee, sheafVars, areVars, flowVars>>

CallComputeCorrectionSequence ==
  /\ LET results == AnalyzeKroneckerSequence(CorrectionMaxK)
     IN  sequence' = [called |-> "compute_correction_sequence",
                      max_k |-> CorrectionMaxK, results |-> results,
                      threshold |-> FirstUnstable(results, 1)]
  /\ UNCHANGED <<samplerVars, mainVars, threshold_data, lee, sheafVars, areVars, flowVars>>

NextKronecker ==
  \/ CallAnalyzeThreshold
  \/ CallLeeFormulaK5
  \/ CallAnalyzeKroneckerSequence
  \/ CallComputeCorrectionSequence

SpecKronecker == InitCorr /\ [][NextKronecker]_vars

\* ------------------------------------------------------- sheaf_scanner calls
\* import of topology.sheaf_scanner by a caller
ImportSheafScanner ==
  /\ sheaf_module = "unloaded"
  /\ sheaf_module' \in ImportOutcomes
  /\ UNCHANGED <<samplerVars, mainVars, kroneckerVars, areVars, flowVars,
                 scan, rank>>

CallScanLogicalCycle ==
  /\ sheaf_module = "loaded"
  /\ \E size \in 0..MaxCycle, force_obstruction \in BOOLEAN :
       scan' = [called |-> TRUE, size |-> size,
                force_obstruction |-> force_obstruction,
                out |-> ScanCycle(size, force_obstruction)]
  /\ UNCHANGED <<samplerVars, mainVars, kroneckerVars, areVars, flowVars,
                 sheaf_module, rank>>

\* SheafScanner(CnfFormula.from_clauses(clauses)).compute_homology_rank(rank_n)
CallComputeHomologyRank ==
  /\ sheaf_module = "loaded"
  /\ \E clauses \in ClauseLists, rank_n \in 0..MaxRankN :
       rank' = [called |-> TRUE, clauses |-> clauses, rank_n |-> rank_n,
                out |-> ComputeHomologyRank(FromClauses(clauses), rank_n)]
  /\ UNCHANGED <<samplerVars, mainVars, kroneckerVars, areVars, flowVars,
                 sheaf_module, scan>>

NextSheaf ==
  \/ ImportSheafScanner
  \/ CallScanLogicalCycle
  \/ CallComputeHomologyRank

SpecSheaf == InitCorr /\ [][NextSheaf]_vars

\* ----------------------------------------------------- are_compressor calls
\* run_compression_test(time_steps, problem_type) by a caller that runs two
\* tests and keeps the first result for comparison
CallRunCompressionTest ==
  /\ earlier.status = "none"
  /\ \E steps \in Steps, kind \in ProblemTypes, level \in CorrelationLevels :
       compression' = CompressionResult(steps, kind, level)
  /\ earlier' = compression
  /\ UNCHANGED <<samplerVars, mainVars, kroneckerVars, sheafVars, flowVars>>

NextAre == CallRunCompressionTest

SpecAre == InitCorr /\ [][NextAre]_vars

\* ------------------------------------------------------- veritas_flow calls
\* import of flow.veritas_flow: its first import is topology.sheaf_scanner
ImportVeritasFlow ==
  /\ flow_module = "unloaded"
  /\ sheaf_module' \in
       IF sheaf_module = "unloaded" THEN ImportOutcomes ELSE {sheaf_module}
  /\ flow_module' = sheaf_module'
  /\ UNCHANGED <<samplerVars, mainVars, kroneckerVars, scan, rank, areVars,
                 flow_pc, flow, executed>>

\* VeritasFlowExecutor().run(initial_state), up to the loop
Run ==
  /\ flow_module = "loaded"
  /\ flow_pc = "off"
  /\ \E st \in InitialStates :
       flow' = [st EXCEPT !.current_node = "TOPOLOGICAL",
                          !.status = "IN_PROGRESS"]
  /\ flow_pc' = "running"
  /\ executed' = <<>>
  /\ UNCHANGED <<samplerVars, mainVars, kroneckerVars, sheafVars, areVars,
                 flow_module>>

\* self.nodes.get(name) for the nodes that consult no engine, applied to the
\* state
NodeFunc(name, st) ==
  CASE name = "TOPOLOGICAL" -> TopologicalNode(st)
    [] name = "ALGEBRAIC" -> AlgebraicNode(st)
    [] name = "LEAN_VERIFY" -> LeanVerifyNode(st)

\* one turn of the while loop: state = node_func(state)
ExecuteNode ==
  /\ flow_pc = "running"
  /\ flow.current_node \in NodeNames
  /\ IF flow.current_node = "HOLOGRAPHIC"
       THEN \E level \in CorrelationLevels :
              flow' = HolographicNode(flow,
                        EngineRunSimulation(RawGet(flow.raw_data.time_steps, 1000),
                                            flow.problem_type = "hard", level))
       ELSE flow' = NodeFunc(flow.current_node, flow)
  /\ executed' = Append(executed, flow.current_node)
  /\ UNCHANGED <<samplerVars, mainVars, kroneckerVars, sheafVars, areVars,
                 flow_module, flow_pc>>

\* the loop ends (END, or a name nodes.get does not know): run prints the
\* status and returns the state
FlowComplete ==
  /\ flow_pc = "running"
  /\ flow.current_node \notin NodeNames
  /\ flow_pc' = "done"
  /\ UNCHANGED <<samplerVars, mainVars, kroneckerVars, sheafVars, areVars,
                 flow_module, flow, executed>>

NextFlow ==
  \/ ImportVeritasFlow
  \/ Run
  \/ ExecuteNode
  \/ FlowComplete

\* run is a plain loop: once called it takes its next step
SpecFlow ==
  InitCorr /\ [][NextFlow]_vars /\ WF_vars(ExecuteNode) /\ WF_vars(FlowComplete)

\* ------------------------------------------------------------------ claims
Constructed == pc \in {"idle", "outer", "inner"}

\* C1: constructing a TwoLevelSampler raises a configuration error if and
\* only if (t_active_end - t_active_start) <= 2*delta, whatever n1, n2 and
\* the lattice are.
C1_RejectedIffWindowAtMostTwiceDelta ==
  pc # "new" =>
    ((pc = "config_error") <=> (Window(config) <= 2 * config.delta))

\* C2: in every state of a constructed sampler the configuration satisfies
\* (t_active_end - t_active_start) > 2*delta.
C2_WindowExceedsTwiceDelta ==
  Constructed => Window(config) > 2 * config.delta

\* C3: in every inner iteration of measure_active_region the perturbed field
\* equals the input frozen_boundary at every time slice outside
\* [t_active_start+delta, t_active_end-delta), and the input array is never
\* modified.
C3_BoundaryInvariance ==
  /\ frozen_boundary = boundary_input
  /\ (pc = "inner" /\ i > 0) =>
       \A t \in 0..(lattice.T - 1) :
         ~(config.t_active_start + config.delta <= t
             /\ t < config.t_active_end - config.delta)
           => active_field[t] = boundary_input[t]

\* an inner iteration has perturbed the interior of a window that has a
\* frozen shell inside the lattice
C3_Witness ==
  /\ pc = "inner"
  /\ i > 0
  /\ config.delta >= 1
  /\ config.t_active_end <= lattice.T
  /\ \E t \in 0..(lattice.T - 1) : active_field[t] # boundary_input[t]

\* C4: measure_correlator's outcome is the same for every field given the
\* same t, channel and noise draw, and for the known channels it is
\* exp(-m_eff*t) + noise with m_eff = 0.5 for "0++" and 0.7 for "0-+".
C4_CorrelatorIgnoresField ==
  corr.called =>
    /\ \A f \in GaugeFieldDraws(lattice) :
         ComputeCorrelator(f, corr.t, corr.channel, corr.noise) = corr.out
    /\ corr.channel = "0++" =>
         corr.out.value =
           RAdd(Norm((ExpNeg(5 * corr.t, 10) * CorrScale + ExpScale \div 2)
                       \div ExpScale, CorrScale), corr.noise)
    /\ corr.channel = "0-+" =>
         corr.out.value =
           RAdd(Norm((ExpNeg(7 * corr.t, 10) * CorrScale + ExpScale \div 2)
                       \div ExpScale, CorrScale), corr.noise)

\* the pseudoscalar channel measured at t > 0 on a field that is not zero
C4_Witness ==
  /\ corr.called
  /\ corr.channel = "0-+"
  /\ corr.t > 0
  /\ corr.field[0] # 0
  /\ ~corr.out.raised

\* C5: run_simulation classifies the run as PASS exactly when
\* actual_scaling < 2 * expected_variance_scaling and as WARN otherwise, and
\* a WARN run still returns its complete result.
C5_PassIffBelowTwiceExpected ==
  /\ result.status = "returned" =>
       /\ verdict \in {"PASS", "WARN"}
       /\ (verdict = "PASS") <=>
            RLess(result.variance_scaling,
                  RMul(Rat(2), result.expected_scaling))
  /\ verdict = "WARN" =>
       /\ result.status = "returned"
       /\ pc = "idle"
       /\ result.t_range = TRange(config)
  /\ result.status # "returned" => verdict = "none"

\* a run whose observed scaling is a number at or above twice the expected
\* one has returned, classified WARN
C5_Witness ==
  /\ result.status = "returned"
  /\ verdict = "WARN"
  /\ IsFinite(result.variance_scaling)
  /\ config.n1 = 2
  /\ config.n2 = 2

\* C6: with n1 >= 1 and n2 >= 1, run_simulation returns t_range equal to
\* t_active_start .. t_active_end-1, correlator and variance arrays of that
\* length, and expected_scaling equal to 1/n1^2.
C6_ResultShape ==
  (result.status = "returned" /\ config.n1 >= 1 /\ config.n2 >= 1) =>
    /\ Len(result.t_range) = config.t_active_end - config.t_active_start
    /\ \A j \in 1..Len(result.t_range) :
         result.t_range[j] = config.t_active_start + j - 1
    /\ result.correlator_0pp.shape = <<Len(result.t_range)>>
    /\ result.correlator_0mp.shape = <<Len(result.t_range)>>
    /\ result.variance_0pp.shape = <<Len(result.t_range)>>
    /\ result.variance_0mp.shape = <<Len(result.t_range)>>
    /\ result.expected_scaling = <<1, config.n1 * config.n1>>

\* a run with two inner and two boundary samples over a three-slice window
C6_Witness ==
  /\ result.status = "returned"
  /\ config.n1 = 2
  /\ config.n2 = 2
  /\ Len(result.t_range) = 3

\* C7: with n1 = 0 or n2 = 0 run_simulation does not crash: it completes and
\* reports the undefined aggregates as NaN.
C7_DegenerateRunCompletes ==
  (config.n1 = 0 \/ config.n2 = 0) => result.status # "raised"

\* C8: with n2 = 1 run_simulation reports the variance across boundary
\* samples as NaN, not as a number.
C8_SingleBoundaryVarianceIsNaN ==
  (result.status = "returned" /\ config.n2 = 1) =>
    /\ \A k \in 1..Len(result.variance_0pp.data) :
         result.variance_0pp.data[k] = NaN
    /\ \A k \in 1..Len(result.variance_0mp.data) :
         result.variance_0mp.data[k] = NaN

\* C9: measure_correlator raises, and returns no value, exactly for the
\* channels other than "0++" and "0-+".
C9_UnknownChannelRaises ==
  corr.called =>
    /\ corr.out.raised <=> corr.channel \notin {"0++", "0-+"}
    /\ corr.out.raised => corr.out.value = NoValue
    /\ ~corr.out.raised => Len(corr.out.value) = 2

\* a call with a channel that is neither known one has raised
C9_Witness ==
  /\ corr.called
  /\ corr.channel = "2++"
  /\ corr.out.raised

\* C10: analyze_boundary_saturation returns, without raising, the first
\* distance d > 1 whose error-reduction factor is within 0.01 of the one at
\* d-1 (a distance within [distances[1], distances[-1]]), or none when the
\* scanned range has no such distance.
C10_FirstFlatDistanceOrNone ==
  saturation.status # "none" =>
    LET dist == saturation.distances
        er == saturation.error_reduction
        flat == { k \in 2..Len(er) :
                    Abs(er[k] - er[k - 1]) < ExpScale \div 100 }
    IN  /\ saturation.status = "returned"
        /\ flat = {} => saturation.saturation_distance = NoDistance
        /\ flat # {} =>
             /\ Len(saturation.saturation_distance) = 1
             /\ \E k \in flat :
                  /\ \A m \in flat : k <= m
                  /\ saturation.saturation_distance[1] = dist[k]
             /\ dist[2] <= saturation.saturation_distance[1]
             /\ saturation.saturation_distance[1] <= dist[Len(dist)]

\* C11: in the result of analyze_boundary_saturation the error-reduction
\* factor does not increase from d to d+1 for consecutive distances with
\* 1 <= d and d+1 <= delta.
C11_NonIncreasingWithinShell ==
  saturation.status = "returned" =>
    \A k \in 1..(Len(saturation.distances) - 1) :
      (1 <= saturation.distances[k]
         /\ saturation.distances[k + 1] <= config.delta)
        => saturation.error_reduction[k + 1] <= saturation.error_reduction[k]

\* an analysis over a shell four slices thick, whose factors fall from each
\* distance to the next up to the thickness and rise after it
C11_Witness ==
  /\ saturation.status = "returned"
  /\ config.delta = 4
  /\ \A k \in 1..3 :
       saturation.error_reduction[k + 1] < saturation.error_reduction[k]
  /\ saturation.error_reduction[5] > saturation.error_reduction[4]

C13_AnalysisIndependentOfRuns ==
  \A a \in 1..Len(history) :
    /\ history[a].draws = 0
    /\ \A b \in 1..Len(history) : history[a].out = history[b].out

\* a caller has analysed once right after a completed run_simulation and once
\* not, and both calls returned
C13_Witness ==
  \E a \in 1..Len(history), b \in 1..Len(history) :
    /\ history[a].after_run
    /\ ~history[b].after_run
    /\ history[a].out.status = "returned"
    /\ history[b].out.status = "returned"
    /\ config.delta >= 1

\* C14: the entry point builds the sampler with LatticeConfig(L=32, T=64,
\* beta=6.0) and TwoLevelConfig(n1=100, n2=20, delta=4, t_active_start=10,
\* t_active_end=54), invokes run_simulation, then
\* analyze_boundary_saturation, and only then prints the summary.
C14_MainRunsThenAnalyzesThenPrints ==
  /\ main_pc \notin {"off", "start"} =>
       /\ lattice = [L |-> 32, T |-> 64, beta |-> 6]
       /\ config = [n1 |-> 100, n2 |-> 20, delta |-> 4,
                    t_active_start |-> 10, t_active_end |-> 54]
  /\ summary # NoSummary =>
       sampler_calls =
         <<"__init__", "run_simulation", "analyze_boundary_saturation">>

\* C15: the summary reports the two-level variance reduction as validated
\* only when the run_simulation of that run classified it PASS, never for a
\* WARN or for a classification that was not computed.
C15_ValidatedOnlyOnPass ==
  summary.calibration = "VALIDADA" =>
    /\ \E j \in 1..Len(sampler_calls) : sampler_calls[j] = "run_simulation"
    /\ verdict = "PASS"

\* C17: for k in 1..4 staircase_hook_coefficient(k) equals
\* hogben_polynomial(k), the triangular number of index k^2 - k + 1, so the
\* correction is 0 and is_stable holds; at k = 5 the correction is +29
\* (260 - 231) and is_stable fails, and 5 is the first unstable k of the
\* sequence analysis.
C17_StableUpToFourFaultAtFive ==
  /\ (threshold_data.called /\ threshold_data.k \in 1..4) =>
       LET index == threshold_data.k * threshold_data.k - threshold_data.k + 1
       IN  /\ threshold_data.data.actual = threshold_data.data.predicted
           /\ 2 * threshold_data.data.predicted = index * (index + 1)
           /\ threshold_data.data.correction = 0
           /\ threshold_data.data.is_stable
  /\ (threshold_data.called /\ threshold_data.k = 5) =>
       /\ threshold_data.data.actual = 260
       /\ threshold_data.data.predicted = 231
       /\ threshold_data.data.correction = 29
       /\ ~threshold_data.data.is_stable
  /\ Len(sequence.results) >= 5 =>
       /\ \A j \in 1..4 : sequence.results[j].is_stable
       /\ ~sequence.results[5].is_stable
       /\ sequence.results[5].k = 5
       /\ sequence.results[5].correction = 29
  /\ sequence.called = "compute_correction_sequence" =>
       sequence.threshold = <<5>>

\* the threshold analysis has been asked about k = 5 and the correction
\* sequence has reported its first unstable k
C17_Witness ==
  /\ threshold_data.called
  /\ threshold_data.k = 5
  /\ ~threshold_data.data.is_stable
  /\ sequence.called = "compute_correction_sequence"
  /\ sequence.threshold # NoK

\* C18: lee_formula_k5(5) yields discriminant -3 and the value 260, the
\* coefficient staircase_hook_coefficient(5).
C18_LeeValueIsCoefficientAtFive ==
  (lee.called /\ lee.k = 5) =>
    /\ lee.out.discriminant = 0 - 3
    /\ lee.out.value = 260
    /\ lee.out.value = StaircaseHookCoefficient(5)

\* C19: scan_logical_cycle(size, force_obstruction) is available to its
\* callers and returns cycle_size = size, size local consistencies that are
\* all True, and h1_value 1.0 with global_obstruction True when
\* force_obstruction is True, 0.0 with False otherwise, whatever the size.
C19_ScanReflectsForceFlag ==
  /\ sheaf_module \in {"unloaded", "loaded"}
  /\ scan.called =>
       /\ scan.out.cycle_size = scan.size
       /\ Len(scan.out.local_consistencies) = scan.size
       /\ \A j \in 1..scan.size : scan.out.local_consistencies[j]
       /\ scan.out.h1_value = (IF scan.force_obstruction THEN 1 ELSE 0)
       /\ scan.out.global_obstruction = scan.force_obstruction

\* C20: compute_homology_rank(1) on CnfFormula.from_clauses(clauses) is 0
\* for the 2-SAT formula [[1,2],[-1,-2]] and greater than 0 for PHP(3, 2) and
\* for the twisted 4-cycle.
C20_RankSeparatesObstructed ==
  (rank.called /\ rank.rank_n = 1) =>
    /\ rank.clauses = TwoSat => rank.out = 0
    /\ rank.clauses = GeneratePhp(3, 2) => rank.out > 0
    /\ rank.clauses = TwistedCycle => rank.out > 0

\* C21: run_compression_test(1000, "easy"), an easy trace (its checkpoints
\* highly correlated), reports achieved_sqrt_bound = True together with a
\* compression_ratio greater than 2.0.
C21_EasyThousandAboveTwo ==
  (/\ compression.status = "returned"
   /\ compression.time_steps = 1000
   /\ compression.problem_type = "easy"
   /\ RLess(Norm(4, 5), compression.avg_correlation)) =>
    /\ compression.achieved_sqrt_bound
    /\ RLess(Rat(2), compression.compression_ratio)

\* the two results a caller compares, in either order
ComparedPairs == { <<earlier, compression>>, <<compression, earlier>> }

BothReturned == earlier.status = "returned" /\ compression.status = "returned"

\* two traces of one length, the first achieving the bound, the second not
SameLengthSplit(pair) ==
  /\ BothReturned
  /\ pair[1].time_steps = pair[2].time_steps
  /\ pair[1].achieved_sqrt_bound
  /\ ~pair[2].achieved_sqrt_bound

\* C22 (as stated): for any trace length T, a trace that achieves the
\* sqrt(T) bound has a strictly smaller compressed size, and a strictly lower
\* compression_ratio, than a trace of the same length that fails it.
C22_SuccessStrictlySmaller ==
  \A pair \in ComparedPairs :
    SameLengthSplit(pair) =>
      /\ pair[1].holographic_space < pair[2].holographic_space
      /\ RLess(pair[1].compression_ratio, pair[2].compression_ratio)

\* C22 (amended): for T = 8 and every T >= 10, a trace that achieves the
\* sqrt(T) bound has a strictly smaller compressed size and a strictly lower
\* compression_ratio than a trace of the same length that fails it.
C22_SuccessStrictlySmallerFromTen ==
  \A pair \in ComparedPairs :
    (SameLengthSplit(pair)
       /\ (pair[1].time_steps = 8 \/ pair[1].time_steps >= 10)) =>
      /\ pair[1].holographic_space < pair[2].holographic_space
      /\ RLess(pair[1].compression_ratio, pair[2].compression_ratio)

C22_Witness ==
  /\ SameLengthSplit(<<earlier, compression>>)
  /\ earlier.time_steps = 10
  /\ RLess(Norm(1, 2), compression.avg_correlation)
  /\ compression.holographic_space = earlier.holographic_space + 1

\* two bound-achieving traces, the second longer than the first
BothAchievedLonger(pair) ==
  /\ BothReturned
  /\ pair[1].achieved_sqrt_bound
  /\ pair[2].achieved_sqrt_bound
  /\ pair[1].time_steps < pair[2].time_steps

RatioLengths == {100, 400, 1600}

\* C23 (as stated): for traces that achieve the sqrt(T) bound the ratio
\* holographic_space / native_space decreases as T increases: for any
\* T1 < T2, ratio(T2) <= ratio(T1), strictly for the lengths 100 < 400 < 1600.
C23_RatioNonIncreasing ==
  \A pair \in ComparedPairs :
    BothAchievedLonger(pair) =>
      /\ ~RLess(pair[1].compression_ratio, pair[2].compression_ratio)
      /\ (pair[1].time_steps \in RatioLengths
            /\ pair[2].time_steps \in RatioLengths) =>
           RLess(pair[2].compression_ratio, pair[1].compression_ratio)

\* C23 (amended): for traces that achieve the sqrt(T) bound,
\* ratio(T2) <= ratio(T1) for any T1 < T2 with T2 >= 2 * T1, strictly for the
\* lengths 100 < 400 < 1600.
C23_RatioNonIncreasingOnDoubling ==
  \A pair \in ComparedPairs :
    (BothAchievedLonger(pair)
       /\ pair[2].time_steps >= 2 * pair[1].time_steps) =>
      /\ ~RLess(pair[1].compression_ratio, pair[2].compression_ratio)
      /\ (pair[1].time_steps \in RatioLengths
            /\ pair[2].time_steps \in RatioLengths) =>
           RLess(pair[2].compression_ratio, pair[1].compression_ratio)

C23_Witness ==
  /\ BothAchievedLonger(<<earlier, compression>>)
  /\ earlier.time_steps = 400
  /\ compression.time_steps = 1600
  /\ earlier.compression_ratio = Norm(21, 400)
  /\ compression.compression_ratio = Norm(41, 1600)

C24_OneFieldPerOuterIteration ==
  /\ Len(measure_log) = fields_generated
  /\ \A m \in 1..Len(measure_log) :
       /\ measure_log[m].field = m
       /\ ~measure_log[m].done => (m = Len(measure_log) /\ pc = "inner")
  /\ pc = "outer" => fields_generated = n
  /\ pc = "inner" =>
       /\ fields_generated = n + 1
       /\ ~measure_log[n + 1].done
       /\ boundary_input # NoField
  /\ result.status # "none" =>
       /\ fields_generated = config.n2
       /\ frozen_boundary = NoField
       /\ boundary_input = NoField
       /\ active_field = NoField

C24_Witness ==
  /\ result.status = "returned"
  /\ config.n2 = 2
  /\ fields_generated = 2
  /\ measure_log = <<[field |-> 1, done |-> TRUE], [field |-> 2, done |-> TRUE]>>

\* C25: measure_active_region fills two matrices of shape
\* (t_active_end - t_active_start, n1); entry (j, i) of each channel is
\* written exactly once, by the measure_correlator call for time
\* t_active_start + j on the i-th perturbed copy; it ends after exactly
\* 2 * n1 * (t_active_end - t_active_start) correlator measurements.
C25_EachEntryWrittenOnce ==
  pc = "inner" =>
    /\ Len(c_0pp) = Window(config)
    /\ Len(c_0mp) = Window(config)
    /\ Len(write_log) = Window(config)
    /\ measurements = 2 * i * Window(config)
    /\ \A j \in 1..Window(config) :
         /\ Len(c_0pp[j]) = config.n1
         /\ Len(c_0mp[j]) = config.n1
         /\ \A s \in 1..config.n1 :
              write_log[j][s] =
                IF s <= i
                  THEN <<[channel |-> "0++",
                          t |-> config.t_active_start + j - 1, sample |-> s - 1],
                         [channel |-> "0-+",
                          t |-> config.t_active_start + j - 1, sample |-> s - 1]>>
                  ELSE <<>>

\* the measurement about to return: every inner sample taken
C25_Witness ==
  /\ pc = "inner"
  /\ i = config.n1
  /\ config.n1 = 2
  /\ config.t_active_start = 1
  /\ Window(config) = 3
  /\ measurements = 12
  /\ Len(write_log[3][2]) = 2

\* C26: no public operation changes the sampler's LatticeConfig or
\* TwoLevelConfig; apart from the advance of the random generator, the
\* sampler's state after any sequence of calls is the state right after
\* construction.
C26_ConfigurationNeverChanges ==
  [][/\ lattice' = lattice
     /\ config' = config
     /\ pc' = "idle" =>
          /\ n' = 0
          /\ i' = 0
          /\ frozen_boundary' = NoField
          /\ boundary_input' = NoField
          /\ active_field' = NoField
          /\ c_0pp' = <<>>
          /\ c_0mp' = <<>>
          /\ all_correlators_0pp' = <<>>
          /\ all_correlators_0mp' = <<>>]_vars

\* a sampler back at rest after a completed run_simulation
C26_Witness ==
  /\ pc = "idle"
  /\ result.status = "returned"
  /\ rng_draws > 0
  /\ config.n1 = 2
  /\ config.n2 = 2
  /\ config.delta = 1
  /\ frozen_boundary = NoField

\* C27: for every configuration that passes the constructor's validation,
\* delta = 0 with a positive active window included,
\* analyze_boundary_saturation completes and returns a result without raising.
C27_AnalysisNeverRaises ==
  (Constructed /\ Window(config) > 2 * config.delta
     /\ saturation.status # "none") => saturation.status # "raised"

NodeOrder == <<"TOPOLOGICAL", "ALGEBRAIC", "HOLOGRAPHIC", "LEAN_VERIFY">>

====
